---------------------------- MODULE Spec2Model ----------------------------
(***************************************************************************)
(* A model of deepseek_bot.py: a Discord bot that relays `!ask` questions   *)
(* to the DeepSeek chat-completion endpoint and keeps a rolling            *)
(* conversation history per channel.                                       *)
(*                                                                         *)
(* Text is modelled as a sequence of one-character strings, so that        *)
(* len(), slicing, prefix matching and splitting on whitespace are         *)
(* computed as Python and discord.py compute them.                         *)
(***************************************************************************)
EXTENDS Integers, Sequences, FiniteSets, TLC

VARIABLES
  conversation_histories, \* dict: channel id -> list of turns (line 69)
  DEEPSEEK_MODEL,         \* the process-wide model name (line 26)
  tasks,                  \* one record per message event delivered to the bot
  blocked,                \* 0, or the task whose requests.post holds the event-loop thread
  process,                \* the __main__ block: the token read, where the process
                          \* stands, what it printed, the tokens bot.run was called with
  appended                \* history variable: per channel, every turn appended since the
                          \* channel's entry was last created

vars == <<conversation_histories, DEEPSEEK_MODEL, tasks, blocked, process, appended>>

-----------------------------------------------------------------------------
(* Bounds of the model.                                                    *)

\* Messages delivered to the bot in one behaviour of Spec.
MaxMsgs == 2

\* update_conversation_history calls in one behaviour of SpecStore.
MaxAppends == 12

Channels == {"c1", "c2"}

-----------------------------------------------------------------------------
(* Program constants.                                                      *)

\* len(conversation_histories[channel_id]) > 20, [-20:]
HistoryLimit == 20

\* len(response) > 2000, response[i:i+2000]
ChunkSize == 2000

\* max_tokens: 2000
MaxTokens == 2000

\* temperature: 0.7
Temperature == "0.7"

\* The backquote character, which a TLA+ string literal cannot hold.
BQ == "backquote"

\* os.getenv('DEEPSEEK_MODEL', 'deepseek-chat')
DefaultModel ==
  <<"d","e","e","p","s","e","e","k","-","c","h","a","t">>

\* return value of the except RequestException branch
ContactingErrorText ==
  <<"S","o","r","r","y",","," ","I"," ","e","n","c","o","u","n","t","e","r","e","d"," ","a","n",
    " ","e","r","r","o","r"," ","w","h","i","l","e"," ","c","o","n","t","a","c","t","i","n","g",
    " ","D","e","e","p","S","e","e","k"," ","A","P","I",".">>

\* return value of the except (KeyError, IndexError) branch
ParsingErrorText ==
  <<"S","o","r","r","y",","," ","I"," ","h","a","d"," ","t","r","o","u","b","l","e"," ","u","n",
    "d","e","r","s","t","a","n","d","i","n","g"," ","t","h","e"," ","r","e","s","p","o","n","s",
    "e"," ","f","r","o","m"," ","D","e","e","p","S","e","e","k",".">>

\* clear_history's two replies
ClearedText ==
  <<"C","o","n","v","e","r","s","a","t","i","o","n"," ","h","i","s","t","o","r","y"," ","c","l",
    "e","a","r","e","d","!">>

NothingToClearText ==
  <<"N","o"," ","c","o","n","v","e","r","s","a","t","i","o","n"," ","h","i","s","t","o","r","y",
    " ","t","o"," ","c","l","e","a","r",".">>

\* the prefix of set_model's reply
ModelSetPrefix ==
  <<"M","o","d","e","l"," ","s","e","t"," ","t","o",":"," ">>

\* bot_help's static text
help_text ==
  <<"\n","*","*","D","e","e","p","S","e","e","k"," ","D","i","s","c","o","r","d"," ","B","o",
    "t"," ","C","o","m","m","a","n","d","s",":","*","*","\n",BQ,"!","a","s","k"," ","<","q",
    "u","e","s","t","i","o","n",">",BQ," ","-"," ","A","s","k"," ","D","e","e","p","S","e","e",
    "k"," ","a"," ","q","u","e","s","t","i","o","n","\n",BQ,"!","c","l","e","a","r",BQ," ",
    "-"," ","C","l","e","a","r"," ","c","o","n","v","e","r","s","a","t","i","o","n"," ","h","i",
    "s","t","o","r","y"," ","f","o","r"," ","t","h","i","s"," ","c","h","a","n","n","e","l",
    "\n",BQ,"!","m","o","d","e","l"," ","<","m","o","d","e","l","_","n","a","m","e",">",BQ,
    " ","-"," ","C","h","a","n","g","e"," ","t","h","e"," ","D","e","e","p","S","e","e","k"," ",
    "m","o","d","e","l","\n",BQ,"!","h","e","l","p",BQ," ","-"," ","S","h","o","w"," ","t",
    "h","i","s"," ","h","e","l","p"," ","m","e","s","s","a","g","e","\n","\n","*","*","E","x",
    "a","m","p","l","e",":","*","*"," ",BQ,"!","a","s","k"," ","W","h","a","t"," ","i","s"," ",
    "a","r","t","i","f","i","c","i","a","l"," ","i","n","t","e","l","l","i","g","e","n","c","e",
    "?",BQ,"\n">>

\* on_command_error's two replies: the usage hint, and the prefix of the generic reply
UsageText ==
  <<"P","l","e","a","s","e"," ","p","r","o","v","i","d","e"," ","a"," ","q","u","e","s","t","i",
    "o","n"," ","a","f","t","e","r"," ","t","h","e"," ","c","o","m","m","a","n","d","."," ","E",
    "x","a","m","p","l","e",":"," ",BQ,"!","a","s","k"," ","W","h","a","t"," ","i","s"," ","A",
    "I","?",BQ>>

ErrorPrefix ==
  <<"A","n"," ","e","r","r","o","r"," ","o","c","c","u","r","r","e","d",":"," ">>

\* command_prefix='!' and the four names given to @bot.command
Prefix == <<"!">>
AskName == <<"a","s","k">>
ClearName == <<"c","l","e","a","r">>
ModelName == <<"m","o","d","e","l">>
HelpName == <<"h","e","l","p">>

\* str(error) of the errors discord.py hands to on_command_error
CommandNotFoundPre == <<"C","o","m","m","a","n","d"," ","\"">>
CommandNotFoundPost == <<"\""," ","i","s"," ","n","o","t"," ","f","o","u","n","d">>
CommandInvokePre ==
  <<"C","o","m","m","a","n","d"," ","r","a","i","s","e","d"," ","a","n"," ","e","x","c","e","p",
    "t","i","o","n",":"," ">>
TypeErrorName == <<"T","y","p","e","E","r","r","o","r">>
ValueErrorName == <<"J","S","O","N","D","e","c","o","d","e","E","r","r","o","r">>
HTTPExceptionName == <<"H","T","T","P","E","x","c","e","p","t","i","o","n">>

\* The raw message texts the model delivers.
MsgAsk == <<"!","a","s","k"," ","h","i">>
MsgAskTwoWords == <<"!","a","s","k"," ","a"," "," ","b">>
MsgAskNoArg == <<"!","a","s","k">>
MsgAskBlank == <<"!","a","s","k"," "," ">>
MsgClear == <<"!","c","l","e","a","r">>
MsgModel == <<"!","m","o","d","e","l"," ","r","1">>
MsgModelNoArg == <<"!","m","o","d","e","l">>
MsgModelTwoArgs == <<"!","m","o","d","e","l"," ","r","1"," ","x">>
MsgHelp == <<"!","h","e","l","p">>
MsgUnknown == <<"!","f","o","o">>
MsgPlain == <<"h","i">>
MsgPrefixOnly == <<"!">>

\* A short completion text.
ShortReply == <<"4","2">>

-----------------------------------------------------------------------------
(* Text helpers.                                                           *)

Min(a, b) == IF a <= b THEN a ELSE b

\* Python's None, kept apart from every text (texts hold one-character strings).
None == <<"None">>

IsStr(v) == v # None

IsWs(ch) == ch \in {" ", "\t", "\n", "\r"}

StartsWith(s, p) == Len(s) >= Len(p) /\ SubSeq(s, 1, Len(p)) = p

\* The first position of s, from position i on, holding whitespace (wanted = TRUE)
\* or holding none (wanted = FALSE); Len(s) + 1 when there is no such position.
FirstAt(s, i, wanted) ==
  LET hits == {k \in i..Len(s) : IsWs(s[k]) = wanted}
  IN  IF hits = {} THEN Len(s) + 1 ELSE CHOOSE k \in hits : \A j \in hits : k <= j

\* The last position of s holding no whitespace; 0 when there is none.
LastNonWs(s) ==
  LET hits == {k \in 1..Len(s) : ~IsWs(s[k])}
  IN  IF hits = {} THEN 0 ELSE CHOOSE k \in hits : \A j \in hits : k >= j

\* str.strip()
Strip(s) == SubSeq(s, FirstAt(s, 1, FALSE), LastNonWs(s))

\* StringView.skip_ws() followed by reading up to the next whitespace
SkipWs(s) == SubSeq(s, FirstAt(s, 1, FALSE), Len(s))

GetWord(s) == SubSeq(s, 1, FirstAt(s, 1, TRUE) - 1)

AfterWord(s) == SubSeq(s, FirstAt(s, 1, TRUE), Len(s))

RECURSIVE Concat(_)
Concat(ss) == IF ss = <<>> THEN <<>> ELSE Head(ss) \o Concat(Tail(ss))

-----------------------------------------------------------------------------
(* The command framework's routing of a raw message text.                  *)

RawMessages ==
  {MsgAsk, MsgAskTwoWords, MsgAskNoArg, MsgAskBlank, MsgClear, MsgModel, MsgModelNoArg,
   MsgModelTwoArgs, MsgHelp, MsgUnknown, MsgPlain, MsgPrefixOnly}

\* The messages Spec draws from: the commands that read or write the bot's state, and
\* the two ways a message ends in on_command_error.
MainMessages == {MsgAsk, MsgAskNoArg, MsgClear, MsgModel, MsgUnknown}

CommandNames == {AskName, ClearName, ModelName, HelpName}

\* Bot.get_context: the text must start with command_prefix; the invoker is the word
\* that directly follows it, and the rest of the text is left for the arguments.
HasPrefix(content) == StartsWith(content, Prefix)

InvokedWith(content) == GetWord(SubSeq(content, Len(Prefix) + 1, Len(content)))

ArgText(content) == AfterWord(SubSeq(content, Len(Prefix) + 1, Len(content)))

\* What Bot.invoke does with the message: run a command, report CommandNotFound
\* to on_command_error, or nothing at all.
Route(content) ==
  IF ~HasPrefix(content) THEN "ignore"
  ELSE IF InvokedWith(content) \in CommandNames THEN "command"
  ELSE IF InvokedWith(content) # <<>> THEN "not_found"
  ELSE "ignore"

\* question taken as optional
AskArgNeverMissing(content) == FALSE

\* ask_deepseek(ctx, *, question): the keyword-only parameter takes the whole rest of
\* the text, stripped; an empty rest is MissingRequiredArgument.
AskArgMissing(content) == SkipWs(ArgText(content)) = <<>>

AskQuestion(content) == Strip(SkipWs(ArgText(content)))

\* set_model(ctx, model_name): the positional parameter takes the first
\* whitespace-delimited word; further words are ignored (ignore_extra).
ModelArgMissing(content) == SkipWs(ArgText(content)) = <<>>

ModelArg(content) == GetWord(SkipWs(ArgText(content)))

-----------------------------------------------------------------------------
(* JSON values, and Python's subscripting of them.                         *)

JNull == [t |-> "null"]
JStr(s) == [t |-> "str", s |-> s]
JList(l) == [t |-> "list", l |-> l]
JObj(f) == [t |-> "obj", f |-> f]

\* A response body that is not JSON at all.
JInvalid == [t |-> "invalid"]

Raised(exc) == [t |-> "raise", exc |-> exc]

\* v[key] for a string key
GetKey(v, key) ==
  CASE v.t = "raise" -> v
    [] v.t = "obj" -> IF key \in DOMAIN v.f THEN v.f[key] ELSE Raised("KeyError")
    [] OTHER -> Raised("TypeError")

\* v[i] for an integer index i >= 0
GetIdx(v, i) ==
  CASE v.t = "raise" -> v
    [] v.t = "list" -> IF i < Len(v.l) THEN v.l[i + 1] ELSE Raised("IndexError")
    [] v.t = "str" -> IF i < Len(v.s) THEN JStr(<<v.s[i + 1]>>) ELSE Raised("IndexError")
    [] v.t = "obj" -> Raised("KeyError")
    [] OTHER -> Raised("TypeError")

\* The Python value of a JSON string or null.
PyValue(v) ==
  CASE v.t = "str" -> v.s
    [] v.t = "null" -> None

-----------------------------------------------------------------------------
(* The Completion Client: call_deepseek_api.                               *)

Turn(role, content) == [role |-> role, content |-> content]

\* the message list without the history
MessagesWithoutHistory(message_content, conversation_history) ==
  <<Turn("user", message_content)>>

\* messages = []; extend with the history when it is truthy; append the user turn
Messages(message_content, conversation_history) ==
  (IF conversation_history # <<>> THEN conversation_history ELSE <<>>)
    \o <<Turn("user", message_content)>>

\* The payload built with the configured default instead of the current selection
PayloadOfDefaultModel(model, message_content, conversation_history) ==
  [model |-> DefaultModel,
   messages |-> Messages(message_content, conversation_history),
   temperature |-> Temperature,
   max_tokens |-> MaxTokens]

Payload(model, message_content, conversation_history) ==
  [model |-> model,
   messages |-> Messages(message_content, conversation_history),
   temperature |-> Temperature,
   max_tokens |-> MaxTokens]

NoPayload == [model |-> <<>>, messages |-> <<>>, temperature |-> "", max_tokens |-> 0]

\* What requests.post comes back with: a transport failure, or a response with a
\* status and a body.  decode names the exception response.json() raises on a body
\* that is not JSON: requests.exceptions.JSONDecodeError (a RequestException) in
\* requests >= 2.27, a plain ValueError before.
ConnectionFailure == [kind |-> "connection_error", status |-> 0, body |-> JInvalid,
                      decode |-> "RequestException"]

Response(status, body) == [kind |-> "response", status |-> status, body |-> body,
                           decode |-> "RequestException"]

ResponseOldRequests(status, body) == [kind |-> "response", status |-> status, body |-> body,
                                      decode |-> "ValueError"]

\* raise_for_status taken to raise for server errors alone
RaisesForServerError(status) == 500 <= status /\ status < 600

\* Response.raise_for_status(): HTTPError for 4xx and 5xx, nothing otherwise
RaisesForStatus(status) == 400 <= status /\ status < 600

\* result['choices'][0]['message']['content']
ExtractContent(result) ==
  GetKey(GetKey(GetIdx(GetKey(result, "choices"), 0), "message"), "content")

Return(v) == [kind |-> "return", value |-> v, exc |-> "none"]
Raise(exc) == [kind |-> "raise", value |-> None, exc |-> exc]
NoResult == [kind |-> "none", value |-> None, exc |-> "none"]

\* The try block and its two except clauses: what the call returns or raises, given
\* what requests.post came back with.
CallResult(o) ==
  IF o.kind = "connection_error" \/ RaisesForStatus(o.status)
    THEN Return(ContactingErrorText)
  ELSE IF o.body.t = "invalid"
    THEN (IF o.decode = "RequestException" THEN Return(ContactingErrorText)
          ELSE Raise("JSONDecodeError"))
  ELSE LET content == ExtractContent(o.body)
       IN  IF content.t = "raise"
             THEN (IF content.exc \in {"KeyError", "IndexError"}
                     THEN Return(ParsingErrorText)
                   ELSE Raise(content.exc))
           ELSE Return(PyValue(content))

-----------------------------------------------------------------------------
(* What the completion service can answer.                                 *)

Digits == <<"0", "1", "2", "3", "4", "5", "6", "7", "8", "9">>

\* A text of n characters, no two neighbours alike.
TextOfLen(n) == [i \in 1..n |-> Digits[(i % 10) + 1]]

\* {"choices": [{"message": {"content": content}}]}
Completion(content) ==
  JObj([choices |-> JList(<<JObj([message |-> JObj([content |-> content])])>>)])

\* {"error": {"message": ...}}, what the service sends with a 4xx status
ErrorBody == JObj([error |-> JObj([message |-> JStr(<<"n", "o">>)])])

Outcomes ==
  << ConnectionFailure,
     Response(200, Completion(JStr(ShortReply))),
     Response(200, JObj([choices |-> JNull])),
     Response(200, Completion(JStr(<<>>))),
     Response(200, Completion(JNull)),
     Response(200, ErrorBody),
     Response(200, JObj([choices |-> JList(<<>>)])),
     Response(200, JObj([choices |-> JList(<<JObj([index |-> JNull])>>)])),
     Response(200, JObj([choices |-> JList(<<JObj([message |-> JObj([role |-> JNull])])>>)])),
     Response(200, JObj([choices |-> JList(<<JNull>>)])),
     Response(200, JObj([choices |-> JList(<<JObj([message |-> JNull])>>)])),
     Response(200, JNull),
     Response(200, JList(<<>>)),
     Response(200, JObj([choices |-> JObj([first |-> JNull])])),
     Response(200, JInvalid),
     ResponseOldRequests(200, JInvalid),
     Response(401, ErrorBody),
     Response(404, Completion(JStr(ShortReply))),
     Response(500, JInvalid),
     ResponseOldRequests(503, JInvalid),
     Response(304, Completion(JStr(ShortReply))),
     Response(200, Completion(JStr(TextOfLen(1999)))),
     Response(200, Completion(JStr(TextOfLen(2000)))),
     Response(200, Completion(JStr(TextOfLen(2001)))),
     Response(200, Completion(JStr(TextOfLen(4000)))),
     Response(200, Completion(JStr(TextOfLen(4001)))),
     Response(200, Completion(JStr(TextOfLen(4500)))) >>

\* The answers Spec draws from: a transport failure, a completion, and a body that
\* makes the call raise.
MainOutcomes == {i \in 1..Len(Outcomes) : i <= 3}

AllOutcomes == 1..Len(Outcomes)

-----------------------------------------------------------------------------
(* The Conversation Store.                                                 *)

\* update_conversation_history with the slice taken from the wrong end ([:20])
update_keep_oldest(h, channel_id, user_message, assistant_response) ==
  LET before == IF channel_id \in DOMAIN h THEN h[channel_id] ELSE <<>>
      extended == before \o <<Turn("user", user_message),
                              Turn("assistant", assistant_response)>>
      kept == IF Len(extended) > HistoryLimit THEN SubSeq(extended, 1, HistoryLimit)
              ELSE extended
  IN  [c \in DOMAIN h \cup {channel_id} |-> IF c = channel_id THEN kept ELSE h[c]]

\* update_conversation_history with a limit of 19 turns
update_odd_limit(h, channel_id, user_message, assistant_response) ==
  LET before == IF channel_id \in DOMAIN h THEN h[channel_id] ELSE <<>>
      extended == before \o <<Turn("user", user_message),
                              Turn("assistant", assistant_response)>>
      kept == IF Len(extended) > HistoryLimit - 1
                THEN SubSeq(extended, Len(extended) - HistoryLimit + 2, Len(extended))
              ELSE extended
  IN  [c \in DOMAIN h \cup {channel_id} |-> IF c = channel_id THEN kept ELSE h[c]]

\* update_conversation_history keeping no entry but the one it writes
update_single_entry(h, channel_id, user_message, assistant_response) ==
  LET before == IF channel_id \in DOMAIN h THEN h[channel_id] ELSE <<>>
      extended == before \o <<Turn("user", user_message),
                              Turn("assistant", assistant_response)>>
      kept == IF Len(extended) > HistoryLimit
                THEN SubSeq(extended, Len(extended) - HistoryLimit + 1, Len(extended))
              ELSE extended
  IN  [c \in {channel_id} |-> kept]

\* update_conversation_history; h is conversation_histories before the call
update_conversation_history(h, channel_id, user_message, assistant_response) ==
  LET before == IF channel_id \in DOMAIN h THEN h[channel_id] ELSE <<>>
      extended == before \o <<Turn("user", user_message),
                              Turn("assistant", assistant_response)>>
      kept == IF Len(extended) > HistoryLimit
                THEN SubSeq(extended, Len(extended) - HistoryLimit + 1, Len(extended))
              ELSE extended
  IN  [c \in DOMAIN h \cup {channel_id} |-> IF c = channel_id THEN kept ELSE h[c]]

\* conversation_histories.get(channel_id, [])
HistoryOf(h, channel_id) == IF channel_id \in DOMAIN h THEN h[channel_id] ELSE <<>>

\* the entry emptied instead of deleted
WithEmptied(h, channel_id) == [c \in DOMAIN h |-> IF c = channel_id THEN <<>> ELSE h[c]]

\* del conversation_histories[channel_id]
Without(h, channel_id) == [c \in DOMAIN h \ {channel_id} |-> h[c]]

\* The chunking with the last, shorter chunk forgotten
ChunksWithoutRemainder(response) ==
  IF Len(response) > ChunkSize
    THEN [k \in 1..(Len(response) \div ChunkSize) |->
            SubSeq(response, (k - 1) * ChunkSize + 1, k * ChunkSize)]
  ELSE <<response>>

\* The chunks ask_deepseek sends for a response.
Chunks(response) ==
  IF Len(response) > ChunkSize
    THEN [k \in 1..((Len(response) + ChunkSize - 1) \div ChunkSize) |->
            SubSeq(response, (k - 1) * ChunkSize + 1, Min(k * ChunkSize, Len(response)))]
  ELSE <<response>>

-----------------------------------------------------------------------------
(* Tasks: one per message event.  pc is where the task stands:             *)
(*   received     delivered and queued, its on_message not yet run        *)
(*   ignored      not routed to anything                                   *)
(*   typing       ask_deepseek suspended entering ctx.typing()             *)
(*   inflight     ask_deepseek inside requests.post                        *)
(*   sending      a handler suspended in ctx.send, pending holds the texts *)
(*   error_reply  on_command_error scheduled, pending holds its text       *)
(*   replied      the handler returned                                     *)
(*   errored      on_command_error sent its reply                          *)
(*   failed       on_command_error's own send raised                       *)

NewTask(ch, content) ==
  [ch |-> ch, content |-> content, pc |-> "received", question |-> <<>>,
   payload |-> NoPayload, posts |-> 0, outcome |-> 0, result |-> NoResult,
   stored |-> FALSE, pending |-> <<>>, sent |-> <<>>, error |-> "none"]

TaskIds == 1..Len(tasks)

\* the request awaited without holding the loop's thread
LoopAlwaysFree == TRUE

\* The loop thread is free: no task holds it inside a blocking call.
LoopFree == blocked = 0

\* str(error) for the error on_command_error is given
CommandNotFoundText(content) ==
  CommandNotFoundPre \o InvokedWith(content) \o CommandNotFoundPost

ExceptionName(exc) ==
  CASE exc = "TypeError" -> TypeErrorName
    [] exc = "JSONDecodeError" -> ValueErrorName
    [] exc = "HTTPException" -> HTTPExceptionName

CommandInvokeErrorText(exc) == CommandInvokePre \o ExceptionName(exc)

\* on_command_error replying to MissingRequiredArgument the way it replies to the rest
ErrorReplyAlwaysGeneric(error, description) == ErrorPrefix \o description

\* The text on_command_error sends for an error
ErrorReply(error, description) ==
  IF error = "MissingRequiredArgument" THEN UsageText ELSE ErrorPrefix \o description

\* The task after its command failed with error: on_command_error is scheduled
Failed(task, error, description) ==
  [task EXCEPT !.pc = "error_reply", !.error = error,
               !.pending = <<ErrorReply(error, description)>>]

\* What os.getenv('DISCORD_BOT_TOKEN') can give: None when the variable is unset,
\* the empty text, a token.
Tokens == {None, <<>>, <<"t", "o", "k">>}

TokenErrorText ==
  <<"E","r","r","o","r",":"," ","D","I","S","C","O","R","D","_","B","O","T","_","T","O","K","E",
    "N"," ","n","o","t"," ","f","o","u","n","d"," ","i","n"," ","e","n","v","i","r","o","n","m",
    "e","n","t"," ","v","a","r","i","a","b","l","e","s">>

\* the token taken as missing only when the variable is unset
TokenIsNone(bot_token) == bot_token = None

\* not bot_token: None and the empty text are falsy, every other text is truthy
TokenMissing(bot_token) == bot_token = None \/ bot_token = <<>>

\* The module is loaded and bot_token is read; the __main__ block has yet to test it.
Init ==
  /\ conversation_histories = [c \in {} |-> <<>>]
  /\ DEEPSEEK_MODEL = DefaultModel
  /\ tasks = <<>>
  /\ blocked = 0
  /\ \E bot_token \in Tokens :
       process = [bot_token |-> bot_token, state |-> "start", printed |-> <<>>, run |-> <<>>]
  /\ appended = [c \in Channels |-> <<>>]

\* The __main__ block: without a token it prints the error and the script ends;
\* with one it calls bot.run(bot_token), which logs in and serves events, or raises
\* LoginFailure when the platform refuses the token.
main(accepted) ==
  /\ process.state = "start"
  /\ process' =
       IF TokenMissing(process.bot_token)
         THEN [process EXCEPT !.state = "exited", !.printed = Append(@, TokenErrorText)]
       ELSE [process EXCEPT !.run = Append(@, process.bot_token),
                            !.state = IF accepted THEN "running" ELSE "login_failed"]
  /\ UNCHANGED <<conversation_histories, DEEPSEEK_MODEL, tasks, blocked, appended>>

\* The platform delivers a message event to the bot's connection, where it waits for
\* the loop to run its on_message.  Delivery does not need the loop: an event that
\* arrives while the loop's thread is held stays queued.
Receive(ch, content, maxm) ==
  /\ process.state = "running"
  /\ Len(tasks) < maxm
  /\ tasks' = Append(tasks, NewTask(ch, content))
  /\ UNCHANGED <<conversation_histories, DEEPSEEK_MODEL, blocked, process, appended>>

\* Bot.invoke finds neither the prefix nor an invoker: nothing happens.
IgnoreMessage(t) ==
  /\ LoopFree
  /\ tasks[t].pc = "received"
  /\ Route(tasks[t].content) = "ignore"
  /\ tasks' = [tasks EXCEPT ![t].pc = "ignored"]
  /\ UNCHANGED <<conversation_histories, DEEPSEEK_MODEL, blocked, process, appended>>

\* Bot.invoke finds the prefix and an unknown invoker: CommandNotFound is
\* dispatched to on_command_error.
CommandNotFound(t) ==
  /\ LoopFree
  /\ tasks[t].pc = "received"
  /\ Route(tasks[t].content) = "not_found"
  /\ tasks' = [tasks EXCEPT ![t] =
                 Failed(@, "CommandNotFound", CommandNotFoundText(@.content))]
  /\ UNCHANGED <<conversation_histories, DEEPSEEK_MODEL, blocked, process, appended>>

\* ask or model without its required argument: MissingRequiredArgument is
\* dispatched to on_command_error and the handler's body never runs.
MissingArgument(t) ==
  /\ LoopFree
  /\ tasks[t].pc = "received"
  /\ Route(tasks[t].content) = "command"
  /\ \/ InvokedWith(tasks[t].content) = AskName /\ AskArgMissing(tasks[t].content)
     \/ InvokedWith(tasks[t].content) = ModelName /\ ModelArgMissing(tasks[t].content)
  /\ tasks' = [tasks EXCEPT ![t] = Failed(@, "MissingRequiredArgument", <<>>)]
  /\ UNCHANGED <<conversation_histories, DEEPSEEK_MODEL, blocked, process, appended>>

\* A command whose arguments parsed: its handler's body starts.
Invoked(t, name) ==
  /\ LoopFree
  /\ tasks[t].pc = "received"
  /\ Route(tasks[t].content) = "command"
  /\ InvokedWith(tasks[t].content) = name

\* ask_deepseek up to its first suspension: entering ctx.typing() awaits the
\* typing request, before the history is read.
ask_enter(t) ==
  /\ Invoked(t, AskName)
  /\ ~AskArgMissing(tasks[t].content)
  /\ tasks' = [tasks EXCEPT ![t].pc = "typing",
                            ![t].question = AskQuestion(tasks[t].content)]
  /\ UNCHANGED <<conversation_histories, DEEPSEEK_MODEL, blocked, process, appended>>

\* ask_deepseek resumes: it reads the channel's history and call_deepseek_api builds
\* the payload and enters requests.post, a blocking call on the loop's own thread.
ask_post(t) ==
  /\ LoopFree
  /\ tasks[t].pc = "typing"
  /\ tasks' = [tasks EXCEPT
       ![t].pc = "inflight",
       ![t].posts = @ + 1,
       ![t].payload = Payload(DEEPSEEK_MODEL, tasks[t].question,
                              HistoryOf(conversation_histories, tasks[t].ch))]
  /\ blocked' = t
  /\ UNCHANGED <<conversation_histories, DEEPSEEK_MODEL, process, appended>>

\* ask_deepseek keeping the two apologies out of the history
StoredUnlessApology(h, task, response) ==
  IF response \in {ContactingErrorText, ParsingErrorText} THEN h
  ELSE update_conversation_history(h, task.ch, task.question, response)

\* ask_deepseek leaving the update of the history until after its sends
StoredLater(h, task, response) == h

\* update_conversation_history(ctx.channel.id, question, response), as ask_deepseek
\* calls it right after call_deepseek_api returns
StoredOnReturn(h, task, response) ==
  update_conversation_history(h, task.ch, task.question, response)

\* The task once call_deepseek_api has returned response and the history is updated:
\* len(response) and the chunking, up to the first ctx.send.
AfterStore(task, response) ==
  IF IsStr(response)
    THEN [task EXCEPT !.pc = "sending", !.stored = TRUE, !.pending = Chunks(response)]
  ELSE Failed([task EXCEPT !.stored = TRUE], "CommandInvokeError",
              CommandInvokeErrorText("TypeError"))

\* requests.post comes back with outcome o; call_deepseek_api returns or raises, and
\* ask_deepseek runs on, without suspending, to its first ctx.send.  keep says
\* whether the task remembers which outcome it was given.
ask_return(t, o, keep) ==
  LET task == [tasks[t] EXCEPT !.result = CallResult(Outcomes[o]),
                               !.outcome = IF keep THEN o ELSE 0]
      r == task.result
  IN  /\ blocked = t
      /\ tasks[t].pc = "inflight"
      /\ blocked' = 0
      /\ IF r.kind = "raise"
           THEN /\ tasks' = [tasks EXCEPT ![t] =
                     Failed(task, "CommandInvokeError", CommandInvokeErrorText(r.exc))]
                /\ UNCHANGED <<conversation_histories, appended>>
         ELSE /\ conversation_histories' =
                   StoredOnReturn(conversation_histories, task, r.value)
              /\ appended' = [appended EXCEPT ![task.ch] =
                   @ \o <<Turn("user", task.question), Turn("assistant", r.value)>>]
              /\ tasks' = [tasks EXCEPT ![t] = AfterStore(task, r.value)]
      /\ UNCHANGED <<DEEPSEEK_MODEL, process>>

\* clear_history up to its ctx.send
clear_history(t) ==
  /\ Invoked(t, ClearName)
  /\ IF tasks[t].ch \in DOMAIN conversation_histories
       THEN /\ conversation_histories' = Without(conversation_histories, tasks[t].ch)
            /\ appended' = [appended EXCEPT ![tasks[t].ch] = <<>>]
            /\ tasks' = [tasks EXCEPT ![t].pc = "sending", ![t].pending = <<ClearedText>>]
     ELSE /\ tasks' = [tasks EXCEPT ![t].pc = "sending",
                                    ![t].pending = <<NothingToClearText>>]
          /\ UNCHANGED <<conversation_histories, appended>>
  /\ UNCHANGED <<DEEPSEEK_MODEL, blocked, process>>

\* set_model up to its ctx.send
set_model(t) ==
  /\ Invoked(t, ModelName)
  /\ ~ModelArgMissing(tasks[t].content)
  /\ DEEPSEEK_MODEL' = ModelArg(tasks[t].content)
  /\ tasks' = [tasks EXCEPT ![t].pc = "sending",
                 ![t].pending = <<ModelSetPrefix \o ModelArg(tasks[t].content)>>]
  /\ UNCHANGED <<conversation_histories, blocked, process, appended>>

\* bot_help up to its ctx.send
bot_help(t) ==
  /\ Invoked(t, HelpName)
  /\ tasks' = [tasks EXCEPT ![t].pc = "sending", ![t].pending = <<help_text>>]
  /\ UNCHANGED <<conversation_histories, DEEPSEEK_MODEL, blocked, process, appended>>

\* The platform refuses an empty message whatever else happens.
Deliverable(text, ok) == ok /\ text # <<>>

\* A handler's ctx.send completes: the text is delivered and the handler runs on to
\* its next send or to its end, or the send raises HTTPException and the command
\* fails with CommandInvokeError.
send(t, ok) ==
  /\ LoopFree
  /\ tasks[t].pc = "sending"
  /\ tasks' = [tasks EXCEPT ![t] =
       IF Deliverable(Head(@.pending), ok)
         THEN [@ EXCEPT !.sent = Append(@, Head(tasks[t].pending)),
                        !.pending = Tail(@),
                        !.pc = IF Tail(tasks[t].pending) = <<>> THEN "replied" ELSE "sending"]
       ELSE Failed(@, "CommandInvokeError", CommandInvokeErrorText("HTTPException"))]
  /\ UNCHANGED <<conversation_histories, DEEPSEEK_MODEL, blocked, process, appended>>

\* on_command_error: its one ctx.send is delivered, or raises and is only logged.
on_command_error(t, ok) ==
  /\ LoopFree
  /\ tasks[t].pc = "error_reply"
  /\ tasks' = [tasks EXCEPT ![t] =
       IF Deliverable(Head(@.pending), ok)
         THEN [@ EXCEPT !.sent = Append(@, Head(tasks[t].pending)),
                        !.pending = <<>>, !.pc = "errored"]
       ELSE [@ EXCEPT !.pending = <<>>, !.pc = "failed"]]
  /\ UNCHANGED <<conversation_histories, DEEPSEEK_MODEL, blocked, process, appended>>

-----------------------------------------------------------------------------
(* The specifications.                                                     *)

\* A step of a command that reads or writes the bot's state, or that fails: with
\* the service's answers drawn from outs.
Handle(outs, keep) ==
  \/ \E t \in TaskIds : CommandNotFound(t)
  \/ \E t \in TaskIds : MissingArgument(t)
  \/ \E t \in TaskIds : ask_enter(t)
  \/ \E t \in TaskIds : ask_post(t)
  \/ \E t \in TaskIds, o \in outs : ask_return(t, o, keep)
  \/ \E t \in TaskIds : clear_history(t)
  \/ \E t \in TaskIds : set_model(t)
  \/ \E t \in TaskIds, ok \in BOOLEAN : send(t, ok)
  \/ \E t \in TaskIds, ok \in BOOLEAN : on_command_error(t, ok)

\* The bot under concurrent messages on two channels: ask, clear and model, an ask
\* without its question, and an unknown command.
Next ==
  \/ \E accepted \in BOOLEAN : main(accepted)
  \/ \E ch \in Channels, content \in MainMessages : Receive(ch, content, MaxMsgs)
  \/ Handle(MainOutcomes, FALSE)

Spec == Init /\ [][Next]_vars

\* The bot handling a single message, of any text, with every answer of the
\* service; the task remembers the answer it was given.
NextClient ==
  \/ \E accepted \in BOOLEAN : main(accepted)
  \/ \E ch \in Channels, content \in RawMessages : Receive(ch, content, 1)
  \/ \E t \in TaskIds : IgnoreMessage(t)
  \/ \E t \in TaskIds : bot_help(t)
  \/ Handle(AllOutcomes, TRUE)

SpecClient == Init /\ [][NextClient]_vars

\* Spec with the loop's scheduling: a task that is ready to run is run, a request to
\* the platform completes or raises, and the service answers the request it was sent.
\* The last is the environment's part: requests.post is given no timeout.
SpecLive == Spec /\ WF_vars(Handle(MainOutcomes, FALSE)) /\ WF_vars(main(TRUE) \/ main(FALSE))

\* The Conversation Store on its own: update_conversation_history called again and
\* again, the n-th call with a question and a reply that name n.
Numeral(n) == <<Digits[(n \div 10) + 1], Digits[(n % 10) + 1]>>

Appends == (Len(appended["c1"]) + Len(appended["c2"])) \div 2

AppendCall(ch) ==
  /\ Appends < MaxAppends
  /\ conversation_histories' =
       update_conversation_history(conversation_histories, ch,
                                   <<"q">> \o Numeral(Appends), <<"a">> \o Numeral(Appends))
  /\ appended' = [appended EXCEPT ![ch] =
       @ \o <<Turn("user", <<"q">> \o Numeral(Appends)),
              Turn("assistant", <<"a">> \o Numeral(Appends))>>]
  /\ UNCHANGED <<DEEPSEEK_MODEL, tasks, blocked, process>>

NextStore == \E ch \in Channels : AppendCall(ch)

SpecStore == Init /\ [][NextStore]_vars

\* An ask on a channel whose conversation earlier asks have filled: the appends of
\* those asks, which run on the loop's thread, and then one ask up to its request.
Preload(ch) ==
  /\ process.state = "running"
  /\ LoopFree
  /\ AppendCall(ch)

NextRequest ==
  \/ \E accepted \in BOOLEAN : main(accepted)
  \/ \E ch \in Channels : Preload(ch)
  \/ \E ch \in Channels, content \in {MsgAsk, MsgAskTwoWords} : Receive(ch, content, 1)
  \/ \E t \in TaskIds : ask_enter(t)
  \/ \E t \in TaskIds : ask_post(t)

SpecRequest == Init /\ [][NextRequest]_vars

\* Asks and clears on channels that earlier asks have filled, with a service that
\* answers with a completion and a platform that delivers.  The earlier asks are
\* their appends alone, the n-th on a channel with a question and a reply that
\* name n, and all come before the first message.
Fill(ch) ==
  /\ process.state = "running"
  /\ tasks = <<>>
  /\ Appends < MaxAppends
  /\ conversation_histories' =
       update_conversation_history(conversation_histories, ch,
                                   <<"q">> \o Numeral(Len(appended[ch]) \div 2),
                                   <<"a">> \o Numeral(Len(appended[ch]) \div 2))
  /\ appended' = [appended EXCEPT ![ch] =
       @ \o <<Turn("user", <<"q">> \o Numeral(Len(appended[ch]) \div 2)),
              Turn("assistant", <<"a">> \o Numeral(Len(appended[ch]) \div 2))>>]
  /\ UNCHANGED <<DEEPSEEK_MODEL, tasks, blocked, process>>

Completions == {o \in MainOutcomes : CallResult(Outcomes[o]) = Return(ShortReply)}

NextFilled ==
  \/ \E accepted \in BOOLEAN : main(accepted)
  \/ \E ch \in Channels : Fill(ch)
  \/ \E ch \in Channels, content \in {MsgAsk, MsgClear} : Receive(ch, content, MaxMsgs)
  \/ \E t \in TaskIds : ask_enter(t)
  \/ \E t \in TaskIds : ask_post(t)
  \/ \E t \in TaskIds, o \in Completions : ask_return(t, o, FALSE)
  \/ \E t \in TaskIds : clear_history(t)
  \/ \E t \in TaskIds : send(t, TRUE)

SpecFilled == Init /\ [][NextFilled]_vars

\* Asks and clears with a service that fails in every way call_deepseek_api tells
\* apart: the answers of Spec and one whose body lacks the expected keys.  The
\* platform delivers.
ParsingFailure ==
  CHOOSE o \in AllOutcomes : CallResult(Outcomes[o]) = Return(ParsingErrorText)

NextApology ==
  \/ \E accepted \in BOOLEAN : main(accepted)
  \/ \E ch \in Channels, content \in {MsgAsk, MsgClear} : Receive(ch, content, MaxMsgs)
  \/ \E t \in TaskIds : ask_enter(t)
  \/ \E t \in TaskIds : ask_post(t)
  \/ \E t \in TaskIds, o \in MainOutcomes \cup {ParsingFailure} : ask_return(t, o, FALSE)
  \/ \E t \in TaskIds : clear_history(t)
  \/ \E t \in TaskIds : send(t, TRUE)
  \/ \E t \in TaskIds : on_command_error(t, TRUE)

SpecApology == Init /\ [][NextApology]_vars

-----------------------------------------------------------------------------
(* Properties.                                                             *)

IsAsk(task) == HasPrefix(task.content) /\ InvokedWith(task.content) = AskName
IsClear(task) == HasPrefix(task.content) /\ InvokedWith(task.content) = ClearName
IsModel(task) == HasPrefix(task.content) /\ InvokedWith(task.content) = ModelName

\* s ends with the user turn q followed by the assistant turn r
EndsWithPair(s, q, r) ==
  /\ Len(s) >= 2
  /\ s[Len(s) - 1] = Turn("user", q)
  /\ s[Len(s)] = Turn("assistant", r)

C2_StoreAfterLastSend ==
  \A t \in TaskIds : tasks[t].stored => tasks[t].pc = "replied"

\* C2 as amended: the store is updated with an ask's pair before the first chunk is
\* sent.  The step in which call_deepseek_api returns a value leaves the channel's
\* conversation ending with (question, value) and nothing sent; every later send of
\* that ask, delivered or faulting, starts from an updated store and leaves the store
\* as it is.
C2_StoreBeforeFirstSend ==
  [][\A t \in TaskIds :
       /\ (tasks[t].pc = "inflight" /\ tasks'[t].result.kind = "return")
            => /\ tasks'[t].stored
               /\ tasks'[t].sent = <<>>
               /\ tasks[t].ch \in DOMAIN conversation_histories'
               /\ EndsWithPair(conversation_histories'[tasks[t].ch],
                               tasks[t].question, tasks'[t].result.value)
       /\ (tasks[t].pc = "sending" /\ tasks'[t] # tasks[t] /\ IsAsk(tasks[t]))
            => /\ tasks[t].stored
               /\ UNCHANGED conversation_histories]_vars

\* An ask whose send faulted, with its pair in the store all the same.
C2_Witness ==
  \E t \in TaskIds :
    /\ IsAsk(tasks[t])
    /\ tasks[t].result.kind = "return"
    /\ tasks[t].pc = "error_reply"
    /\ tasks[t].sent = <<>>
    /\ tasks[t].ch \in DOMAIN conversation_histories
    /\ EndsWithPair(conversation_histories[tasks[t].ch],
                    tasks[t].question, tasks[t].result.value)

\* C3 as claimed: a message that is not one of the four commands is ignored; it is
\* given no handler and no reply.
C3_UnrecognizedIgnored ==
  \A t \in TaskIds :
    Route(tasks[t].content) # "command"
      => /\ tasks[t].pc \in {"received", "ignored"}
         /\ tasks[t].pending = <<>>
         /\ tasks[t].sent = <<>>

\* The body has the shape call_deepseek_api expects: choices[0].message.content, a string.
WellFormed(body) ==
  /\ body.t = "obj"
  /\ "choices" \in DOMAIN body.f
  /\ body.f.choices.t = "list"
  /\ Len(body.f.choices.l) >= 1
  /\ body.f.choices.l[1].t = "obj"
  /\ "message" \in DOMAIN body.f.choices.l[1].f
  /\ body.f.choices.l[1].f.message.t = "obj"
  /\ "content" \in DOMAIN body.f.choices.l[1].f.message.f
  /\ body.f.choices.l[1].f.message.f.content.t = "str"

\* C4 as claimed: a 200 response whose body is not of the expected shape makes
\* call_deepseek_api return the parsing-error apology; it never raises.
C4_MalformedGivesParsingError ==
  \A t \in TaskIds :
    (/\ tasks[t].outcome # 0
     /\ Outcomes[tasks[t].outcome].kind = "response"
     /\ Outcomes[tasks[t].outcome].status = 200
     /\ ~WellFormed(Outcomes[tasks[t].outcome].body))
      => tasks[t].result = Return(ParsingErrorText)

\* C5 as claimed: a connection error or any status outside 200..299 makes
\* call_deepseek_api return the contacting-error apology, after one request.
C5_NonSuccessGivesContactingError ==
  \A t \in TaskIds :
    (/\ tasks[t].outcome # 0
     /\ \/ Outcomes[tasks[t].outcome].kind = "connection_error"
        \/ Outcomes[tasks[t].outcome].status \notin 200..299)
      => /\ tasks[t].result = Return(ContactingErrorText)
         /\ tasks[t].posts = 1

\* C5 as amended: a connection error or a 4xx or 5xx status makes call_deepseek_api
\* return the contacting-error apology, which is not the parsing-error one, after
\* exactly one request and without raising.
C5_FailureGivesContactingError ==
  /\ ContactingErrorText # ParsingErrorText
  /\ \A t \in TaskIds :
       (/\ tasks[t].outcome # 0
        /\ \/ Outcomes[tasks[t].outcome].kind = "connection_error"
           \/ Outcomes[tasks[t].outcome].status \in 400..599)
         => /\ tasks[t].result = Return(ContactingErrorText)
            /\ tasks[t].posts = 1

\* A call answered with 401 that returned the contacting-error apology.
C5_Witness ==
  \E t \in TaskIds :
    /\ tasks[t].outcome # 0
    /\ Outcomes[tasks[t].outcome].status = 401
    /\ tasks[t].result = Return(ContactingErrorText)
    /\ tasks[t].posts = 1

\* The first step of the handling of a pending message.
Dispatch(u) ==
  \/ IgnoreMessage(u)
  \/ CommandNotFound(u)
  \/ MissingArgument(u)
  \/ ask_enter(u)
  \/ clear_history(u)
  \/ set_model(u)
  \/ bot_help(u)

\* C6 as claimed: while an ask's completion call is in flight, a message pending on
\* another channel can be dispatched.
C6_DispatchWhileInFlight ==
  \A t \in TaskIds, u \in TaskIds :
    (/\ tasks[t].pc = "inflight"
     /\ tasks[u].pc = "received"
     /\ tasks[u].ch # tasks[t].ch)
      => ENABLED Dispatch(u)

AskWithoutQuestion(task) ==
  IsAsk(task) /\ \A i \in 1..Len(ArgText(task.content)) : IsWs(ArgText(task.content)[i])

\* C8: every step of the handling of an ask with an empty or missing argument
\* leaves it without a call of the Completion Client (no request built or posted),
\* with the usage hint as its only reply, queued or sent, and leaves the
\* Conversation Store unchanged.
C8_AskWithoutQuestion ==
  [][\A t \in TaskIds :
       (tasks'[t] # tasks[t] /\ AskWithoutQuestion(tasks[t]))
         => /\ tasks'[t].posts = 0
            /\ tasks'[t].payload = NoPayload
            /\ ~tasks'[t].stored
            /\ tasks'[t].pc \in {"received", "error_reply", "errored", "failed"}
            /\ tasks'[t].pc = "error_reply" => tasks'[t].pending = <<UsageText>>
            /\ tasks'[t].pc = "errored" => tasks'[t].sent = <<UsageText>>
            /\ tasks'[t].pc \in {"received", "error_reply", "failed"} => tasks'[t].sent = <<>>
            /\ UNCHANGED conversation_histories]_vars

\* An ask without a question answered with the usage hint while a conversation is
\* stored.
C8_Witness ==
  \E t \in TaskIds :
    /\ AskWithoutQuestion(tasks[t])
    /\ tasks[t].pc = "errored"
    /\ tasks[t].sent = <<UsageText>>
    /\ tasks[t].posts = 0
    /\ DOMAIN conversation_histories # {}

\* C9: an ask that sent its whole reply sent it, when it is longer than 2000
\* characters, as ceil(L / 2000) messages, each of 2000 characters but the last, which
\* has at most 2000, and together they spell the reply; otherwise as one message.
\* Until then the messages sent are the first of these.
C9_Chunking ==
  \A t \in TaskIds :
    (IsAsk(tasks[t]) /\ tasks[t].pc \in {"sending", "replied"})
      => LET reply == tasks[t].result.value
             sent == tasks[t].sent
             all == sent \o tasks[t].pending
         IN  /\ tasks[t].pc = "replied" => tasks[t].pending = <<>>
             /\ Concat(all) = reply
             /\ IF Len(reply) > 2000
                  THEN /\ Len(all) * 2000 >= Len(reply)
                       /\ (Len(all) - 1) * 2000 < Len(reply)
                       /\ \A k \in 1..(Len(all) - 1) : Len(all[k]) = 2000
                       /\ Len(all[Len(all)]) \in 1..2000
                ELSE all = <<reply>>

\* A reply of 4500 characters sent as 2000, 2000 and 500.
C9_Witness ==
  \E t \in TaskIds :
    /\ IsAsk(tasks[t])
    /\ tasks[t].pc = "replied"
    /\ Len(tasks[t].result.value) = 4500
    /\ Len(tasks[t].sent) = 3
    /\ Len(tasks[t].sent[1]) = 2000
    /\ Len(tasks[t].sent[2]) = 2000
    /\ Len(tasks[t].sent[3]) = 500

\* C10: a request is built with the Model Selection of that moment; the Model
\* Selection changes in no step but a model command's, which sets it to its
\* argument; and a model command changes no stored conversation.
C10_ModelSelection ==
  [][/\ \A t \in TaskIds :
          /\ tasks'[t].posts > tasks[t].posts
               => tasks'[t].payload.model = DEEPSEEK_MODEL
          /\ (tasks'[t] # tasks[t] /\ IsModel(tasks[t]))
               => conversation_histories' = conversation_histories
          /\ (tasks[t].pc = "received" /\ tasks'[t].pc = "sending" /\ IsModel(tasks[t]))
               => DEEPSEEK_MODEL' = ModelArg(tasks[t].content)
     /\ DEEPSEEK_MODEL' # DEEPSEEK_MODEL
          => \E t \in TaskIds :
               /\ tasks[t].pc = "received"
               /\ tasks'[t].pc = "sending"
               /\ IsModel(tasks[t])]_vars

\* After a model command on one channel, a request from another channel that
\* carries the new name.
C10_Witness ==
  \E t \in TaskIds, u \in TaskIds :
    /\ IsModel(tasks[t])
    /\ tasks[t].pc = "replied"
    /\ tasks[u].ch # tasks[t].ch
    /\ tasks[u].posts = 1
    /\ tasks[u].payload.model = ModelArg(tasks[t].content)
    /\ tasks[u].payload.model # DefaultModel
    /\ DEEPSEEK_MODEL = ModelArg(tasks[t].content)

\* The positions a task stays in for good.
Ended == {"ignored", "replied", "errored", "failed"}

\* What str(error) can be for an error that is not MissingRequiredArgument.
Descriptions(task) ==
  {CommandNotFoundText(task.content), CommandInvokeErrorText("TypeError"),
   CommandInvokeErrorText("JSONDecodeError"), CommandInvokeErrorText("HTTPException")}

C12_NoTokenNoConnection ==
  /\ (process.bot_token = None \/ process.bot_token = <<>>)
       => /\ process.run = <<>>
          /\ process.state \in {"start", "exited"}
          /\ tasks = <<>>
          /\ process.state = "exited" => process.printed = <<TokenErrorText>>
  /\ process.run # <<>>
       => /\ process.run = <<process.bot_token>>
          /\ Len(process.bot_token) > 0
          /\ process.bot_token # None
          /\ process.printed = <<>>
  /\ process.state \in {"running", "login_failed"} <=> process.run # <<>>
  /\ process.state = "start" => process.printed = <<>>

\* A process started with an empty token that printed the error and ended.
C12_Witness ==
  /\ process.bot_token = <<>>
  /\ process.state = "exited"
  /\ process.printed = <<TokenErrorText>>
  /\ process.run = <<>>


\* C13: the step in which an ask builds its request leaves the request holding the
\* turns stored for the ask's channel at that moment, in order, followed by one user
\* turn with the question, at most 21 messages in all, with temperature 0.7 and
\* max_tokens 2000, and leaves the store as it was.
C13_RequestMessages ==
  [][\A t \in TaskIds :
       tasks'[t].posts > tasks[t].posts
         => LET stored == IF tasks[t].ch \in DOMAIN conversation_histories
                            THEN conversation_histories[tasks[t].ch] ELSE <<>>
                messages == tasks'[t].payload.messages
            IN  /\ Len(messages) = Len(stored) + 1
                /\ Len(messages) <= 21
                /\ \A k \in 1..Len(stored) : messages[k] = stored[k]
                /\ messages[Len(messages)] = [role |-> "user", content |-> tasks[t].question]
                /\ tasks[t].question = AskQuestion(tasks[t].content)
                /\ tasks'[t].payload.temperature = "0.7"
                /\ tasks'[t].payload.max_tokens = 2000
                /\ conversation_histories' = conversation_histories]_vars

\* A request of 21 messages: the 20 turns stored, of which older ones were evicted,
\* and the question.
C13_Witness ==
  \E t \in TaskIds :
    /\ tasks[t].posts = 1
    /\ Len(tasks[t].payload.messages) = 21
    /\ Len(appended[tasks[t].ch]) > 20
    /\ SubSeq(tasks[t].payload.messages, 1, 20) = conversation_histories[tasks[t].ch]
    /\ tasks[t].payload.messages[21] = [role |-> "user", content |-> tasks[t].question]


\* The number of whitespace-separated words of s.
RECURSIVE WordCount(_)
WordCount(s) ==
  IF SkipWs(s) = <<>> THEN 0 ELSE 1 + WordCount(AfterWord(SkipWs(s)))

\* C14 as claimed: a model command given no argument, or more than one, leaves the
\* Model Selection as it was and is answered with the corrective reply, never with
\* the confirmation.
C14_ModelNeedsExactlyOneArgument ==
  \A t \in TaskIds :
    (IsModel(tasks[t]) /\ WordCount(ArgText(tasks[t].content)) # 1)
      => /\ DEEPSEEK_MODEL = DefaultModel
         /\ tasks[t].pc \in {"received", "error_reply", "errored", "failed"}
         /\ tasks[t].pc = "error_reply" => tasks[t].pending = <<UsageText>>
         /\ tasks[t].pc = "errored" => tasks[t].sent = <<UsageText>>


\* C15: a call of update_conversation_history on channel c leaves c with an entry
\* whose last two turns are the user turn with the question and the assistant turn
\* with the reply, in that order, placed after the turns c had (all of them, or the
\* most recent 18 once the limit is reached; none when c had no entry); every other
\* channel keeps its entry, or its absence, and the Model Selection is unchanged.
C15_AppendFrame ==
  [][\A c \in Channels :
       Len(appended'[c]) > Len(appended[c])
         => LET old == IF c \in DOMAIN conversation_histories
                         THEN conversation_histories[c] ELSE <<>>
                new == conversation_histories'[c]
                n == Len(new)
            IN  /\ c \in DOMAIN conversation_histories'
                /\ n >= 2
                /\ new[n - 1] = [role |-> "user", content |-> <<"q">> \o Numeral(Appends)]
                /\ new[n] = [role |-> "assistant", content |-> <<"a">> \o Numeral(Appends)]
                /\ SubSeq(new, 1, n - 2) =
                     IF Len(old) <= 18 THEN old ELSE SubSeq(old, Len(old) - 17, Len(old))
                /\ \A d \in Channels \ {c} :
                     /\ d \in DOMAIN conversation_histories' <=> d \in DOMAIN conversation_histories
                     /\ d \in DOMAIN conversation_histories
                          => conversation_histories'[d] = conversation_histories[d]
                /\ DEEPSEEK_MODEL' = DEEPSEEK_MODEL]_vars

\* One channel at the limit after evictions, the other just created with one pair.
C15_Witness ==
  /\ DOMAIN conversation_histories = Channels
  /\ \E c \in Channels, d \in Channels :
       /\ Len(conversation_histories[c]) = 20
       /\ Len(appended[c]) > 20
       /\ Len(conversation_histories[d]) = 2
       /\ conversation_histories[d][1].role = "user"
       /\ conversation_histories[d][2].role = "assistant"


\* Every conversation of the store h has at least one turn, an even number of them,
\* at most 20, and roles that alternate user, assistant from a user turn on.
StoreShape(h) ==
  \A c \in DOMAIN h :
    /\ Len(h[c]) >= 1
    /\ Len(h[c]) % 2 = 0
    /\ Len(h[c]) <= 20
    /\ \A k \in 1..Len(h[c]) : h[c][k].role = IF k % 2 = 1 THEN "user" ELSE "assistant"

\* C16: every step of asks and clears, interleaved in any way, leaves every stored
\* conversation non-empty, of even length at most 20, with roles alternating user,
\* assistant from a user turn on; and a clear that queues the confirmation removed
\* an entry that held at least one turn.
C16_StoreShape ==
  [][/\ StoreShape(conversation_histories')
     /\ \A t \in TaskIds :
          (tasks[t].pc = "received" /\ tasks'[t].pending = <<ClearedText>>)
            => /\ tasks[t].ch \in DOMAIN conversation_histories
               /\ Len(conversation_histories[tasks[t].ch]) >= 1
               /\ tasks[t].ch \notin DOMAIN conversation_histories']_vars

\* An ask that stored its pair in a conversation at the limit, evicting the oldest
\* pair, and a clear on the other channel confirmed.
C16_Witness ==
  \E t \in TaskIds, u \in TaskIds :
    /\ IsAsk(tasks[t])
    /\ tasks[t].stored
    /\ Len(appended[tasks[t].ch]) > 20
    /\ Len(conversation_histories[tasks[t].ch]) = 20
    /\ EndsWithPair(conversation_histories[tasks[t].ch], tasks[t].question, ShortReply)
    /\ IsClear(tasks[u])
    /\ tasks[u].sent = <<ClearedText>>
    /\ tasks[u].ch # tasks[t].ch


\* C17: at most one ask is between its read of the history and its append.  While
\* it is, the history it sent is still what the store holds for its channel, and a
\* step runs no other handler and changes neither the store nor the Model Selection,
\* unless it is that ask's own return; and that return, when it appends, leaves the
\* channel holding the messages of the request followed by the assistant turn with
\* the reply (the most recent 20 of them) and every other channel as it was.
C17_ReadAppendAtomic ==
  [][/\ \A t \in 1..Len(tasks'), u \in 1..Len(tasks') :
          (t # u /\ tasks'[t].pc = "inflight") => tasks'[u].pc # "inflight"
     /\ \A t \in TaskIds :
          tasks[t].pc = "inflight"
            => LET messages == tasks[t].payload.messages
                   ch == tasks[t].ch
                   after == messages \o <<[role |-> "assistant",
                                           content |-> tasks'[t].result.value]>>
               IN  /\ SubSeq(messages, 1, Len(messages) - 1) =
                        (IF ch \in DOMAIN conversation_histories
                           THEN conversation_histories[ch] ELSE <<>>)
                   /\ \A u \in TaskIds \ {t} : tasks'[u] = tasks[u]
                   /\ DEEPSEEK_MODEL' = DEEPSEEK_MODEL
                   /\ IF tasks'[t].stored
                        THEN /\ DOMAIN conversation_histories' =
                                  DOMAIN conversation_histories \cup {ch}
                             /\ conversation_histories'[ch] =
                                  IF Len(after) > 20
                                    THEN SubSeq(after, Len(after) - 19, Len(after))
                                  ELSE after
                             /\ \A d \in DOMAIN conversation_histories \ {ch} :
                                  conversation_histories'[d] = conversation_histories[d]
                      ELSE conversation_histories' = conversation_histories]_vars

\* Two asks on one channel, both stored: the second sent the pair of the first and
\* its own question, and the channel holds the two pairs.
C17_Witness ==
  \E t \in TaskIds, u \in TaskIds :
    /\ t # u
    /\ tasks[t].ch = tasks[u].ch
    /\ tasks[t].stored
    /\ tasks[u].stored
    /\ Len(tasks[t].payload.messages) = 1
    /\ Len(tasks[u].payload.messages) = 3
    /\ Len(conversation_histories[tasks[t].ch]) = 4
    /\ SubSeq(conversation_histories[tasks[t].ch], 1, 3) = tasks[u].payload.messages


Removed(u) ==
  /\ IsClear(tasks[u])
  /\ tasks[u].pending = <<ClearedText>> \/ tasks[u].sent = <<ClearedText>>

\* C19 as claimed: an ask never appends its pair once a clear of its channel that
\* was received after it has removed the channel's entry.  Tasks are numbered in
\* the order their messages were received.
C19_NoAppendAfterClear ==
  [][\A t \in TaskIds :
       (tasks[t].pc = "inflight" /\ tasks'[t].stored)
         => \A u \in TaskIds :
              (u > t /\ tasks[u].ch = tasks[t].ch) => ~Removed(u)]_vars

=============================================================================
